---------------------------- MODULE Spec2Model ----------------------------
(***************************************************************************)
(* Model of the govalidator aggregation engine (validator.go), of its    *)
(* check library and constructors, and of the example Request.Validate   *)
(* (examples/cli/main.go).                                                 *)
(*                                                                         *)
(* A Go string is a sequence of bytes, modelled as a sequence of byte      *)
(* codes (ASCII), so that sort.Strings, strings.Join and fmt.Sprintf are   *)
(* modelled by what they do to the bytes.  An ErrValidation is a Go map:   *)
(* a reference to a heap object, modelled as an address into heap, whose   *)
(* value is a function from field names to message lists.                  *)
(***************************************************************************)
EXTENDS Integers, Sequences, FiniteSets, TLC

VARIABLES
    heap,       \* address -> map[string][]string, the ErrValidation objects
    recv,       \* the address the caller holds from New()
    ret,        \* the address returned by the last New()/Validate call
    call,       \* record of the last operation: its inputs, pre-state, result
    validated,  \* history: field names passed to Validate so far
    failed,     \* history: field names for which some Validate call had a failing check
    ncalls,     \* history: number of Validate calls made on the report
    req,        \* the Request last validated by Request.Validate (or NoRequest)
    lib         \* the last call into the check library or a constructor: inputs and result

vars == <<heap, recv, ret, call, validated, failed, ncalls, req, lib>>

---------------------------------------------------------------------------
(* Bounds of the model *)

\* the most checks handed to one Validate call
MaxChecks == 2

\* the most Validate calls made on one report
MaxCalls == 2

\* the most messages under one field of a report handed to String
MaxMsgs == 2

\* the largest number handed to a check; the smallest is its negative
MaxNum == 2

\* the longest string handed to StrLength, and the largest length bound
MaxLen == 3

\* the most elements of an array, slice, map or record handed to NotEmpty
MaxElems == 2

---------------------------------------------------------------------------
(* String literals of the source, as byte sequences *)

\* "no validation errors"
noValidationErrors ==
    <<110, 111, 32, 118, 97, 108, 105, 100, 97, 116, 105, 111, 110, 32,
      101, 114, 114, 111, 114, 115>>

\* "value cannot be empty"
validateEmpty ==
    <<118, 97, 108, 117, 101, 32, 99, 97, 110, 110, 111, 116, 32, 98, 101,
      32, 101, 109, 112, 116, 121>>

\* field names: "count", "count2", "isEnabled", "counts", "name", "dob"
fCount == <<99, 111, 117, 110, 116>>
fCount2 == <<99, 111, 117, 110, 116, 50>>
fIsEnabled == <<105, 115, 69, 110, 97, 98, 108, 101, 100>>
fCounts == <<99, 111, 117, 110, 116, 115>>
fName == <<110, 97, 109, 101>>
fDob == <<100, 111, 98>>

\* request names: "My Name", "Bob", "A Very Long Name"
sMyName == <<77, 121, 32, 78, 97, 109, 101>>
sBob == <<66, 111, 98>>
sLongName == <<65, 32, 86, 101, 114, 121, 32, 76, 111, 110, 103, 32, 78, 97, 109, 101>>

---------------------------------------------------------------------------
(* fmt verbs *)

RECURSIVE Digits(_)
\* the decimal digits of a natural number
Digits(n) ==
    IF n < 10 THEN <<48 + n>> ELSE Digits(n \div 10) \o <<48 + (n % 10)>>

\* %v / %d of an int
FormatInt(n) ==
    IF n < 0 THEN <<45>> \o Digits(0 - n) ELSE Digits(n)

\* %v of a bool: "true" / "false"
FormatBool(b) ==
    IF b THEN <<116, 114, 117, 101>> ELSE <<102, 97, 108, 115, 101>>

\* A time.Time is modelled as midnight UTC on 1 January of a year 1..9999
\* (year 1 is the zero time); %s prints "YYYY-01-01 00:00:00 +0000 UTC".
FormatTime(t) ==
    LET d == Digits(t)
        pad == [i \in 1..(4 - Len(d)) |-> 48]
    IN  pad \o d \o <<45, 48, 49, 45, 48, 49, 32, 48, 48, 58, 48, 48, 58, 48, 48,
                     32, 43, 48, 48, 48, 48, 32, 85, 84, 67>>

\* an error value: nil, or an error carrying a message
NilErr == [nil |-> TRUE, msg |-> <<>>, panic |-> FALSE]
Errorf(m) == [nil |-> FALSE, msg |-> m, panic |-> FALSE]

\* the outcome of a call that does not return: panic(...)
Panic == [nil |-> FALSE, msg |-> <<>>, panic |-> TRUE]

---------------------------------------------------------------------------
(* Values of any type, as reflect sees them: a kind and the kind's content *)

\* the nil interface value
NilV == [kind |-> "Nil"]
\* numbers; a float is modelled by the whole number it equals
IntV(n) == [kind |-> "Int", n |-> n]
UintV(n) == [kind |-> "Uint", n |-> n]
FloatV(n) == [kind |-> "Float", n |-> n]
StrV(s) == [kind |-> "String", s |-> s]
BoolV(b) == [kind |-> "Bool", b |-> b]
\* a time.Time is a struct; so is a record with the given field values
TimeV(t) == [kind |-> "Struct", type |-> "time.Time", t |-> t]
StructV(fields) == [kind |-> "Struct", type |-> "struct", fields |-> fields]
\* [n]T, []T and map[K]V with the given elements; nil slices and maps
ArrayV(elems) == [kind |-> "Array", elems |-> elems]
SliceV(elems) == [kind |-> "Slice", isnil |-> FALSE, elems |-> elems]
NilSliceV == [kind |-> "Slice", isnil |-> TRUE, elems |-> <<>>]
MapV(elems) == [kind |-> "Map", isnil |-> FALSE, elems |-> elems]
NilMapV == [kind |-> "Map", isnil |-> TRUE, elems |-> <<>>]
\* func and chan values, nil or not
FuncV(isnil) == [kind |-> "Func", isnil |-> isnil]
ChanV(isnil) == [kind |-> "Chan", isnil |-> isnil]

\* %v of a bool, a string, an int or a time.Time
FormatV(v) ==
    CASE v.kind = "Bool" -> FormatBool(v.b)
      [] v.kind = "String" -> v.s
      [] v.kind = "Int" -> FormatInt(v.n)
      [] v.kind = "Struct" /\ v.type = "time.Time" -> FormatTime(v.t)

---------------------------------------------------------------------------
(* The check library: each constructor returns a closure over its arguments *)

StrLength(val, min, max) == [fn |-> "StrLength", val |-> val, min |-> min, max |-> max]
PositiveNumber(val) == [fn |-> "PositiveNumber", val |-> val]
Equal(val, exp) == [fn |-> "Equal", val |-> val, exp |-> exp]
DateBefore(val, exp) == [fn |-> "DateBefore", val |-> val, exp |-> exp]
NotEmpty(v) == [fn |-> "NotEmpty", v |-> v]
Empty(v) == [fn |-> "Empty", v |-> v]
MinNumber(val, min) == [fn |-> "MinNumber", val |-> val, min |-> min]
MaxNumber(val, max) == [fn |-> "MaxNumber", val |-> val, max |-> max]
BetweenNumber(val, min, max) == [fn |-> "BetweenNumber", val |-> val, min |-> min, max |-> max]
DateEqual(val, exp) == [fn |-> "DateEqual", val |-> val, exp |-> exp]
DateAfter(val, exp) == [fn |-> "DateAfter", val |-> val, exp |-> exp]

\* "value must be empty"
validateNotEmpty ==
    <<118, 97, 108, 117, 101, 32, 109, 117, 115, 116, 32, 98, 101, 32, 101,
      109, 112, 116, 121>>

\* "value %v is smaller than minimum %v"
validateMin(val, min) ==
    <<118, 97, 108, 117, 101, 32>> \o FormatInt(val)
    \o <<32, 105, 115, 32, 115, 109, 97, 108, 108, 101, 114, 32, 116, 104,
         97, 110, 32, 109, 105, 110, 105, 109, 117, 109, 32>>
    \o FormatInt(min)

\* "value %v is larger than maximum %v"
validateMax(val, max) ==
    <<118, 97, 108, 117, 101, 32>> \o FormatInt(val)
    \o <<32, 105, 115, 32, 108, 97, 114, 103, 101, 114, 32, 116, 104, 97,
         110, 32, 109, 97, 120, 105, 109, 117, 109, 32>>
    \o FormatInt(max)

\* "value %v must be between %v and %v"
validateNumBetween(val, min, max) ==
    <<118, 97, 108, 117, 101, 32>> \o FormatInt(val)
    \o <<32, 109, 117, 115, 116, 32, 98, 101, 32, 98, 101, 116, 119, 101,
         101, 110, 32>>
    \o FormatInt(min) \o <<32, 97, 110, 100, 32>> \o FormatInt(max)

\* "the date/time provided %s, does not match the expected %s"
validateDateEqual(val, exp) ==
    <<116, 104, 101, 32, 100, 97, 116, 101, 47, 116, 105, 109, 101, 32, 112,
      114, 111, 118, 105, 100, 101, 100, 32>>
    \o FormatTime(val)
    \o <<44, 32, 100, 111, 101, 115, 32, 110, 111, 116, 32, 109, 97, 116,
         99, 104, 32, 116, 104, 101, 32, 101, 120, 112, 101, 99, 116, 101,
         100, 32>>
    \o FormatTime(exp)

\* "the date provided %s, must be after %s"
validateDateAfter(val, exp) ==
    <<116, 104, 101, 32, 100, 97, 116, 101, 32, 112, 114, 111, 118, 105,
      100, 101, 100, 32>>
    \o FormatTime(val)
    \o <<44, 32, 109, 117, 115, 116, 32, 98, 101, 32, 97, 102, 116, 101,
         114, 32>>
    \o FormatTime(exp)

\* "value must be between %d and %d characters"
validateLength(min, max) ==
    <<118, 97, 108, 117, 101, 32, 109, 117, 115, 116, 32, 98, 101, 32, 98,
      101, 116, 119, 101, 101, 110, 32>>
    \o FormatInt(min) \o <<32, 97, 110, 100, 32>> \o FormatInt(max)
    \o <<32, 99, 104, 97, 114, 97, 99, 116, 101, 114, 115>>

\* "value %v should be greater than 0"
validatePositive(val) ==
    <<118, 97, 108, 117, 101, 32>> \o FormatInt(val)
    \o <<32, 115, 104, 111, 117, 108, 100, 32, 98, 101, 32, 103, 114, 101,
         97, 116, 101, 114, 32, 116, 104, 97, 110, 32, 48>>

\* "value %v does not evaluate to %v"
validateBool(val, exp) ==
    <<118, 97, 108, 117, 101, 32>> \o FormatV(val)
    \o <<32, 100, 111, 101, 115, 32, 110, 111, 116, 32, 101, 118, 97, 108,
         117, 97, 116, 101, 32, 116, 111, 32>>
    \o FormatV(exp)

\* "the date provided %s, must be before %s"
validateDateBefore(val, exp) ==
    <<116, 104, 101, 32, 100, 97, 116, 101, 32, 112, 114, 111, 118, 105,
      100, 101, 100, 32>>
    \o FormatTime(val)
    \o <<44, 32, 109, 117, 115, 116, 32, 98, 101, 32, 98, 101, 102, 111,
         114, 101, 32>>
    \o FormatTime(exp)

\* the zero time.Time: 0001-01-01 00:00:00 UTC
ZeroTime == 1

RECURSIVE IsZero(_)
\* val.IsZero(): whether the value is the zero value of its type
IsZero(v) ==
    CASE v.kind \in {"Int", "Uint", "Float"} -> v.n = 0
      [] v.kind = "String" -> v.s = <<>>
      [] v.kind = "Bool" -> ~v.b
      [] v.kind = "Struct" ->
           IF v.type = "time.Time" THEN v.t = ZeroTime
           ELSE \A i \in DOMAIN v.fields : IsZero(v.fields[i])
      [] v.kind = "Array" -> \A i \in DOMAIN v.elems : IsZero(v.elems[i])
      [] v.kind \in {"Slice", "Map", "Func", "Chan"} -> v.isnil

\* the white space strings.TrimSpace cuts: \t \n \v \f \r and the space
Space == {9, 10, 11, 12, 13, 32}

RECURSIVE TrimSpace(_)
\* strings.TrimSpace(s)
TrimSpace(s) ==
    IF s = <<>> THEN s
    ELSE IF Head(s) \in Space THEN TrimSpace(Tail(s))
    ELSE IF s[Len(s)] \in Space THEN TrimSpace(SubSeq(s, 1, Len(s) - 1))
    ELSE s

\* the NotEmpty of the check library's earlier version: a rule per kind, a
\* sign comparison for numbers, and panic("unsupported type") for the rest
NotEmptyEarlier(v) ==
    IF v.kind = "Nil" THEN Errorf(validateEmpty)
    ELSE IF v.kind = "Array" /\ Len(v.elems) > 0 THEN Panic
    ELSE IF v.kind \in {"Bool", "Struct", "Func", "Chan"} THEN Panic
    ELSE LET valid ==
                 CASE v.kind \in {"Array", "Map", "Slice"} ->
                        Len(v.elems) > 0 /\ ~v.isnil
                   [] v.kind = "String" -> Len(TrimSpace(v.s)) > 0
                   [] v.kind \in {"Int", "Uint", "Float"} -> v.n > 0
         IN  IF ~valid THEN Errorf(validateEmpty) ELSE NilErr

\* a NotEmpty that keeps a fatal branch for kinds without a rule of their own
NotEmptyPanicDefault(v) ==
    IF v.kind = "Nil" THEN Errorf(validateEmpty)
    ELSE IF v.kind \in {"Func", "Chan"} THEN Panic
    ELSE LET valid ==
                 IF v.kind \in {"Map", "Slice"} THEN Len(v.elems) > 0 /\ ~v.isnil
                 ELSE ~IsZero(v)
         IN  IF ~valid THEN Errorf(validateEmpty) ELSE NilErr

\* a NotEmpty that compares numbers with zero by sign
NotEmptySign(v) ==
    IF v.kind = "Nil" THEN Errorf(validateEmpty)
    ELSE LET valid ==
                 IF v.kind \in {"Map", "Slice"} THEN Len(v.elems) > 0 /\ ~v.isnil
                 ELSE IF v.kind \in {"Int", "Uint", "Float"} THEN v.n > 0
                 ELSE ~IsZero(v)
         IN  IF ~valid THEN Errorf(validateEmpty) ELSE NilErr

\* a NotEmpty that takes an array by its length, as it takes slices and maps
NotEmptyArrayLen(v) ==
    IF v.kind = "Nil" THEN Errorf(validateEmpty)
    ELSE LET valid ==
                 IF v.kind \in {"Map", "Slice"} THEN Len(v.elems) > 0 /\ ~v.isnil
                 ELSE IF v.kind = "Array" THEN Len(v.elems) > 0
                 ELSE ~IsZero(v)
         IN  IF ~valid THEN Errorf(validateEmpty) ELSE NilErr

\* the closure NotEmpty(v) returns, evaluated
EvalNotEmpty(v) ==
    IF v.kind = "Nil" THEN Errorf(validateEmpty)
    ELSE LET valid ==
                 IF v.kind \in {"Map", "Slice"} THEN Len(v.elems) > 0 /\ ~v.isnil
                 ELSE ~IsZero(v)
         IN  IF ~valid THEN Errorf(validateEmpty) ELSE NilErr

\* an Empty that fails when NotEmpty fails
EmptySameAsNotEmpty(v) ==
    LET err == EvalNotEmpty(v)
    IN  IF ~err.nil THEN Errorf(validateNotEmpty) ELSE NilErr

\* the closure Empty(v) returns, evaluated: err := NotEmpty(v)()
EvalEmpty(v) ==
    LET err == EvalNotEmpty(v)
    IN  IF err.panic THEN err
        ELSE IF err.nil THEN Errorf(validateNotEmpty) ELSE NilErr

\* an Equal that formats the operands in the other order
EqualSwapped(val, exp) ==
    IF val = exp THEN NilErr ELSE Errorf(validateBool(exp, val))

\* the closure Equal(val, exp) returns, evaluated
EvalEqual(val, exp) ==
    IF val = exp THEN NilErr ELSE Errorf(validateBool(val, exp))

\* a MaxNumber with an exclusive bound
MaxNumberExclusive(val, max) ==
    IF val < max THEN NilErr ELSE Errorf(validateMax(val, max))

\* the closure MaxNumber(val, max) returns, evaluated
EvalMaxNumber(val, max) ==
    IF val <= max THEN NilErr ELSE Errorf(validateMax(val, max))

\* a DateAfter that lets the reference itself pass
DateAfterOrEqual(val, exp) ==
    IF val >= exp THEN NilErr ELSE Errorf(validateDateAfter(val, exp))

\* the closure DateAfter(val, exp) returns, evaluated: val.After(exp)
EvalDateAfter(val, exp) ==
    IF val > exp THEN NilErr ELSE Errorf(validateDateAfter(val, exp))

\* fn(): evaluating a ValidationFunc
Eval(c) ==
    CASE c.fn = "StrLength" ->
           IF Len(c.val) >= c.min /\ Len(c.val) <= c.max
           THEN NilErr ELSE Errorf(validateLength(c.min, c.max))
      [] c.fn = "MinNumber" ->
           IF c.val >= c.min THEN NilErr ELSE Errorf(validateMin(c.val, c.min))
      [] c.fn = "MaxNumber" -> EvalMaxNumber(c.val, c.max)
      [] c.fn = "BetweenNumber" ->
           IF c.val >= c.min /\ c.val <= c.max
           THEN NilErr ELSE Errorf(validateNumBetween(c.val, c.min, c.max))
      [] c.fn = "PositiveNumber" ->
           IF c.val > 0 THEN NilErr ELSE Errorf(validatePositive(c.val))
      [] c.fn = "Equal" -> EvalEqual(c.val, c.exp)
      [] c.fn = "DateEqual" ->
           IF c.val = c.exp THEN NilErr ELSE Errorf(validateDateEqual(c.val, c.exp))
      [] c.fn = "DateAfter" -> EvalDateAfter(c.val, c.exp)
      [] c.fn = "DateBefore" ->
           IF c.val < c.exp THEN NilErr ELSE Errorf(validateDateBefore(c.val, c.exp))
      [] c.fn = "NotEmpty" -> EvalNotEmpty(c.v)
      [] c.fn = "Empty" -> EvalEmpty(c.v)

---------------------------------------------------------------------------
(* The aggregator, validator.go *)

\* map[string][]string{}
EmptyMap == [k \in {} |-> <<>>]

\* no object allocated yet
EmptyHeap == [a \in {} |-> EmptyMap]

\* New(): allocates an empty map and returns its address
New(h) ==
    LET a == IF DOMAIN h = {} THEN 1 ELSE 1 + Cardinality(DOMAIN h)
    IN  [heap |-> [x \in DOMAIN h \cup {a} |-> IF x = a THEN EmptyMap ELSE h[x]],
         ret |-> a]

\* out := make([]string, len(fns), len(fns)): len(fns) zero-valued strings
MakeOut(fns) == [i \in 1..Len(fns) |-> <<>>]

\* a loop that stops at the first check that fails: the index after the n checks
RangeBreakOnError(i, n, err) == IF err.nil THEN i + 1 ELSE n + 1

\* for _, fn := range fns: the index after the i-th of n checks returned err
RangeNext(i, n, err) == i + 1

RECURSIVE Collect(_, _)
\* for _, fn := range fns { if err := fn(); err != nil { out = append(out, err.Error()) } }
Collect(out, fns) ==
    IF fns = <<>> THEN out
    ELSE LET err == Eval(Head(fns))
         IN  Collect(IF ~err.nil THEN Append(out, err.msg) ELSE out, Tail(fns))

\* a Store that appends to the list already under field: e[field] = append(e[field], out...)
StoreAppend(m, field, out) ==
    IF Len(out) > 0
    THEN [k \in DOMAIN m \cup {field} |->
            IF k = field THEN (IF field \in DOMAIN m THEN m[field] ELSE <<>>) \o out
            ELSE m[k]]
    ELSE m

\* a Store that keys the list by the literal "field": e["field"] = out
StoreLiteralKey(m, field, out) ==
    IF Len(out) > 0
    THEN [k \in DOMAIN m \cup {<<102, 105, 101, 108, 100>>} |->
            IF k = <<102, 105, 101, 108, 100>> THEN out ELSE m[k]]
    ELSE m

\* a Store that makes the report anew with the one field: e = {field: out}
StoreAlone(m, field, out) ==
    IF Len(out) > 0 THEN [k \in {field} |-> out] ELSE m

\* if len(out) > 0 { e[field] = out }
Store(m, field, out) ==
    IF Len(out) > 0
    THEN [k \in DOMAIN m \cup {field} |-> IF k = field THEN out ELSE m[k]]
    ELSE m

\* a return of a copy of the map instead of the map itself
ValidateReturnCopy(h, e) ==
    LET a == 1 + Cardinality(DOMAIN h)
    IN  [heap |-> [x \in DOMAIN h \cup {a} |-> IF x = a THEN h[e] ELSE h[x]],
         ret |-> a]

\* return e
ValidateReturn(h, e) == [heap |-> h, ret |-> e]

\* (e ErrValidation) Validate(field, fns...): the heap after the call and
\* the address returned
Validate(h, e, field, fns) ==
    LET out == Collect(MakeOut(fns), fns)
    IN  ValidateReturn([h EXCEPT ![e] = Store(h[e], field, out)], e)

\* an IsValid that is off by one: len(e) <= 1
IsValidOffByOne(m) == Cardinality(DOMAIN m) <= 1

\* (e ErrValidation) IsValid()
IsValid(m) == Cardinality(DOMAIN m) = 0


\* Go's < on strings: bytewise lexicographic order
StrLess(a, b) ==
    \E i \in 1..(Len(b)) :
        /\ \A j \in 1..(i - 1) : j <= Len(a) /\ a[j] = b[j]
        /\ (i > Len(a) \/ a[i] < b[i])

RECURSIVE Insert(_, _)
\* s with x put before the first element greater than x
Insert(x, s) ==
    IF s = <<>> THEN <<x>>
    ELSE IF StrLess(x, Head(s)) THEN <<x>> \o s
    ELSE <<Head(s)>> \o Insert(x, Tail(s))

\* String without its sort.Strings(errs) call
SortStringsOmitted(s) == s

RECURSIVE SortStringsDescending(_)
\* a sort into decreasing order
SortStringsDescending(s) ==
    IF s = <<>> THEN <<>>
    ELSE LET r == SortStringsDescending(Tail(s))
             n == Cardinality({i \in DOMAIN r : StrLess(Head(s), r[i])})
         IN  SubSeq(r, 1, n) \o <<Head(s)>> \o SubSeq(r, n + 1, Len(r))

RECURSIVE SortStrings(_)
\* sort.Strings(errs): errs in increasing order
SortStrings(s) ==
    IF s = <<>> THEN <<>> ELSE Insert(Head(s), SortStrings(Tail(s)))

RECURSIVE Join(_, _)
\* strings.Join(elems, sep)
Join(elems, sep) ==
    IF elems = <<>> THEN <<>>
    ELSE IF Len(elems) = 1 THEN elems[1]
    ELSE elems[1] \o sep \o Join(Tail(elems), sep)

\* fmt.Sprintf("[%s: %s]", k, strings.Join(vv, ", "))
Segment(k, vv) ==
    <<91>> \o k \o <<58, 32>> \o Join(vv, <<44, 32>>) \o <<93>>

\* the orders in which `for k, vv := range e` may visit the keys of a map
RangeOrders(m) ==
    {o \in [1..Cardinality(DOMAIN m) -> DOMAIN m] :
        \A i, j \in DOMAIN o : i # j => o[i] # o[j]}

\* (e ErrValidation) String(), the map being ranged over in order o
String(m, o) ==
    IF IsValid(m) THEN noValidationErrors
    ELSE LET errs == [i \in DOMAIN o |-> Segment(o[i], m[o[i]])]
         IN  Join(SortStrings(errs), <<44, 32>>)

\* (e ErrValidation) Error()
Error(m, o) == String(m, o)

---------------------------------------------------------------------------
(* The constructors from a message list and from an error *)

\* a returned report: none (nil), or the ErrValidation m
NoReport == [nil |-> TRUE, report |-> EmptyMap]
ReportOf(m) == [nil |-> FALSE, report |-> m]

\* errors.New(text)
ErrorsNew(text) == Errorf(text)

\* fmt.Errorf(prefix + "%w", err): Error() is the prefix and err's message
Wrap(prefix, err) == Errorf(prefix \o err.msg)

\* a constructor from a list that gives no report for an empty list
NewSingleErrorNonEmpty(fieldName, errs) ==
    IF errs = <<>> THEN NoReport
    ELSE ReportOf([k \in {fieldName} |-> errs])

\* NewSingleError(fieldName, errs): errs under fieldName, as an error
NewSingleError(fieldName, errs) ==
    ReportOf([k \in {fieldName} |-> errs])

\* a constructor from an error that gives an empty report for a nil error
NewFromErrorEmptyReport(fieldName, err) ==
    IF err.nil THEN ReportOf(EmptyMap)
    ELSE ReportOf([k \in {fieldName} |-> <<err.msg>>])

\* NewFromError(fieldName, err): nil for a nil err, else err.Error() under fieldName
NewFromError(fieldName, err) ==
    IF err.nil THEN NoReport
    ELSE ReportOf([k \in {fieldName} |-> <<err.msg>>])

---------------------------------------------------------------------------
(* Inputs *)

\* the field names callers validate: "count", "count2", "isEnabled"
FieldNames == {fCount, fCount2, fIsEnabled}

\* the checks callers hand to Validate
Checks == {PositiveNumber(0), PositiveNumber(1), Equal(BoolV(TRUE), BoolV(FALSE))}

\* fns ...ValidationFunc: up to MaxChecks checks
CheckLists == UNION {[1..n -> Checks] : n \in 0..MaxChecks}

\* whether some check of fns returns a non-nil error
AnyFails(fns) == \E i \in DOMAIN fns : ~Eval(fns[i]).nil

NoRequest == [Name |-> <<>>, DOB |-> ZeroTime, IsEnabled |-> FALSE, Count |-> 0, now |-> 0]

\* no call into the check library made yet
NoLib == [op |-> "none"]

CallRecord(op, e, field, fns, pre, str, valid) ==
    [op |-> op, e |-> e, field |-> field, fns |-> fns, pre |-> pre,
     str |-> str, valid |-> valid]

---------------------------------------------------------------------------
(* The aggregator's operations as steps of a caller *)

\* v := New()
Init ==
    LET s == New(EmptyHeap)
    IN  /\ heap = s.heap
        /\ recv = s.ret
        /\ ret = s.ret
        /\ call = CallRecord("New", s.ret, <<>>, <<>>, EmptyMap, <<>>, TRUE)
        /\ validated = {}
        /\ failed = {}
        /\ ncalls = 0
        /\ req = NoRequest
        /\ lib = NoLib

\* whether some fn() of Validate's loop panics: Validate does not recover,
\* so the call is left before anything is stored or returned
Panics(fns) == \E i \in DOMAIN fns : Eval(fns[i]).panic

\* the caller is running: no call has panicked
Running == call.op # "panic"

\* a call e.Validate(field, fns...) on the report at address e
DoValidate(e, field, fns) ==
    LET s == Validate(heap, e, field, fns)
        p == Panics(fns)
    IN  /\ Running
        /\ ncalls < MaxCalls
        /\ heap' = IF p THEN heap ELSE s.heap
        /\ ret' = IF p THEN ret ELSE s.ret
        /\ call' = CallRecord(IF p THEN "panic" ELSE "Validate",
                              e, field, fns, heap[e], <<>>, TRUE)
        /\ validated' = validated \cup {field}
        /\ failed' = IF AnyFails(fns) THEN failed \cup {field} ELSE failed
        /\ ncalls' = ncalls + 1
        /\ UNCHANGED <<recv, req, lib>>

\* v.Validate(field, fns...) as a statement on the variable holding New()'s result
ValidateStmt ==
    \E field \in FieldNames, fns \in CheckLists : DoValidate(recv, field, fns)

\* ....Validate(field, fns...) chained on the value the previous call returned
ValidateChain ==
    \E field \in FieldNames, fns \in CheckLists : DoValidate(ret, field, fns)

\* v.IsValid()
IsValidCall ==
    /\ Running
    /\ call' = CallRecord("IsValid", recv, <<>>, <<>>, heap[recv], <<>>, IsValid(heap[recv]))
    /\ UNCHANGED <<heap, recv, ret, validated, failed, ncalls, req, lib>>

\* v.String()
StringCall ==
    \E o \in RangeOrders(heap[recv]) :
        /\ Running
        /\ call' = CallRecord("String", recv, <<>>, <<>>, heap[recv],
                              String(heap[recv], o), TRUE)
        /\ UNCHANGED <<heap, recv, ret, validated, failed, ncalls, req, lib>>

\* v.Error()
ErrorCall ==
    \E o \in RangeOrders(heap[recv]) :
        /\ Running
        /\ call' = CallRecord("Error", recv, <<>>, <<>>, heap[recv],
                              Error(heap[recv], o), TRUE)
        /\ UNCHANGED <<heap, recv, ret, validated, failed, ncalls, req, lib>>

Next ==
    \/ ValidateStmt
    \/ ValidateChain
    \/ IsValidCall

Spec == Init /\ [][Next]_vars

---------------------------------------------------------------------------
(* Rendering: String, Error and IsValid applied to any report *)

\* the elements a field's list may hold: the empty string make() puts there
\* and the failure message of the check made on that field
MsgsOf(k) ==
    IF k = fIsEnabled THEN {<<>>, validateBool(BoolV(TRUE), BoolV(FALSE))}
    ELSE {<<>>, validatePositive(0)}

\* []string values of up to MaxMsgs elements for field k
MsgLists(k) == UNION {[1..n -> MsgsOf(k)] : n \in 0..MaxMsgs}

\* the field names of rendered reports: those above and "counts"
RenderNames == FieldNames \cup {fCounts}

\* ErrValidation values holding some, not all, of the field names
Reports ==
    UNION {{m \in [d -> UNION {MsgLists(k) : k \in d}] :
               \A k \in d : m[k] \in MsgLists(k)} :
           d \in (SUBSET RenderNames) \ {RenderNames}}

\* a report with any content, held by the caller
InitString ==
    \E m \in Reports :
        /\ heap = [a \in {1} |-> m]
        /\ recv = 1
        /\ ret = 1
        /\ call = CallRecord("New", 1, <<>>, <<>>, m, <<>>, TRUE)
        /\ validated = {}
        /\ failed = {}
        /\ ncalls = 0
        /\ req = NoRequest
        /\ lib = NoLib

NextString ==
    \/ IsValidCall
    \/ StringCall
    \/ ErrorCall

SpecString == InitString /\ [][NextString]_vars

---------------------------------------------------------------------------
(* Validate with any field name and checks on values of any kind *)

\* field names, the empty string among them
AnyFieldNames == {<<>>, fCount}

\* checks that pass and fail, on values NotEmpty has no rule of its own for
AnyChecks == {NotEmpty(FuncV(FALSE)), NotEmpty(ChanV(TRUE)), PositiveNumber(1)}

\* fns ...ValidationFunc: up to MaxChecks of these checks, or none
AnyCheckLists == UNION {[1..n -> AnyChecks] : n \in 0..MaxChecks}

\* v.Validate(field, fns...) for any field name and checks
ValidateAny ==
    \E field \in AnyFieldNames, fns \in AnyCheckLists : DoValidate(recv, field, fns)

NextAny ==
    \/ ValidateAny
    \/ IsValidCall
    \/ StringCall
    \/ ErrorCall

SpecAny == Init /\ [][NextAny]_vars

---------------------------------------------------------------------------
(* One Validate call, statement by statement *)

\* v.Validate(field, fns...) is entered on the report fresh from New()
InitLoop ==
    LET s == New(EmptyHeap)
    IN  /\ heap = s.heap
        /\ recv = s.ret
        /\ ret = s.ret
        /\ call = CallRecord("New", s.ret, <<>>, <<>>, EmptyMap, <<>>, TRUE)
        /\ validated = {}
        /\ failed = {}
        /\ ncalls = 0
        /\ req = NoRequest
        /\ \E field \in FieldNames, fns \in CheckLists :
               lib = [op |-> "Validate", pc |-> "make", field |-> field, fns |-> fns,
                      i |-> 1, out |-> <<>>, evals |-> <<>>]

\* out := make([]string, len(fns), len(fns))
LoopMake ==
    /\ lib.op = "Validate" /\ lib.pc = "make"
    /\ lib' = [lib EXCEPT !.pc = "range", !.out = MakeOut(lib.fns)]
    /\ UNCHANGED <<heap, recv, ret, call, validated, failed, ncalls, req>>

\* one turn of the loop: if err := fn(); err != nil { out = append(out, err.Error()) }
LoopIter ==
    /\ lib.op = "Validate" /\ lib.pc = "range"
    /\ lib.i <= Len(lib.fns)
    /\ \E err \in {Eval(lib.fns[lib.i])} :
           lib' = [lib EXCEPT !.out = IF ~err.nil THEN Append(lib.out, err.msg) ELSE lib.out,
                              !.evals = Append(lib.evals, lib.i),
                              !.i = RangeNext(lib.i, Len(lib.fns), err)]
    /\ UNCHANGED <<heap, recv, ret, call, validated, failed, ncalls, req>>

\* after the loop: if len(out) > 0 { e[field] = out }; return e
LoopReturn ==
    /\ lib.op = "Validate" /\ lib.pc = "range"
    /\ lib.i > Len(lib.fns)
    /\ \E s \in {ValidateReturn([heap EXCEPT ![recv] = Store(heap[recv], lib.field, lib.out)],
                                 recv)} :
           /\ heap' = s.heap
           /\ ret' = s.ret
    /\ call' = CallRecord("Validate", recv, lib.field, lib.fns, heap[recv], <<>>, TRUE)
    /\ validated' = validated \cup {lib.field}
    /\ failed' = IF AnyFails(lib.fns) THEN failed \cup {lib.field} ELSE failed
    /\ ncalls' = ncalls + 1
    /\ lib' = [lib EXCEPT !.pc = "returned"]
    /\ UNCHANGED <<recv, req>>

NextLoop ==
    \/ LoopMake
    \/ LoopIter
    \/ LoopReturn

SpecLoop == InitLoop /\ [][NextLoop]_vars

---------------------------------------------------------------------------
(* The constructors applied to any field name, message list and error *)

\* "test", "i failed", "i failed again", "I failed", "i wrap "
fTest == <<116, 101, 115, 116>>
sIFailed == <<105, 32, 102, 97, 105, 108, 101, 100>>
sIFailedAgain == <<105, 32, 102, 97, 105, 108, 101, 100, 32, 97, 103, 97, 105, 110>>
sIFailedCap == <<73, 32, 102, 97, 105, 108, 101, 100>>
sIWrap == <<105, 32, 119, 114, 97, 112, 32>>

\* the field names, message lists and errors handed to the constructors
ConstructNames == {fTest, fCount, <<>>}
ConstructMsgs == {sIFailed, sIFailedAgain, <<>>}
ConstructLists == UNION {[1..n -> ConstructMsgs] : n \in 0..MaxMsgs}
ConstructErrors ==
    {NilErr, ErrorsNew(sIFailedCap), Wrap(sIWrap, ErrorsNew(sIFailedCap)),
     ErrorsNew(<<>>)}

\* the caller holds a field name, a message list and an error
InitConstruct ==
    LET s == New(EmptyHeap)
    IN  /\ heap = s.heap
        /\ recv = s.ret
        /\ ret = s.ret
        /\ call = CallRecord("New", s.ret, <<>>, <<>>, EmptyMap, <<>>, TRUE)
        /\ validated = {}
        /\ failed = {}
        /\ ncalls = 0
        /\ req = NoRequest
        /\ \E f \in ConstructNames, l \in ConstructLists, e \in ConstructErrors :
               lib = [op |-> "input", field |-> f, msgs |-> l, err |-> e,
                      result |-> NoReport]

\* err := NewSingleError(field, msgs)
NewSingleErrorCall ==
    /\ lib.op = "input"
    /\ lib' = [lib EXCEPT !.op = "NewSingleError",
                          !.result = NewSingleError(lib.field, lib.msgs)]
    /\ UNCHANGED <<heap, recv, ret, call, validated, failed, ncalls, req>>

\* err := NewFromError(field, err)
NewFromErrorCall ==
    /\ lib.op = "input"
    /\ lib' = [lib EXCEPT !.op = "NewFromError",
                          !.result = NewFromError(lib.field, lib.err)]
    /\ UNCHANGED <<heap, recv, ret, call, validated, failed, ncalls, req>>

NextConstruct ==
    \/ NewSingleErrorCall
    \/ NewFromErrorCall

SpecConstruct == InitConstruct /\ [][NextConstruct]_vars

---------------------------------------------------------------------------
(* The example handler: Request.Validate, examples/cli/main.go *)

\* the values a request's fields take
Names == {<<>>, sBob, sMyName, sLongName}
Times == {ZeroTime, 2000, 2015}
Counts == {0 - 1, 0, 1}

\* the years time.Now() falls in
Nows == {2017, 2026}

Requests ==
    [Name : Names, DOB : Times, IsEnabled : BOOLEAN, Count : Counts, now : Nows]

\* t.AddDate(years, 0, 0)
AddDate(t, years) == t + years

\* the checks Request.Validate hands to each Validate call, field by field
RequestChecks(r) ==
    <<  <<fName, <<StrLength(r.Name, 4, 10)>> >>,
        <<fDob, <<NotEmpty(TimeV(r.DOB)), DateBefore(r.DOB, AddDate(r.now, 0 - 16))>> >>,
        <<fIsEnabled, <<Equal(BoolV(r.IsEnabled), BoolV(FALSE))>> >>,
        <<fCount, <<PositiveNumber(r.Count)>> >>  >>

\* (r *Request) Validate(): New() and the four chained Validate calls
RequestValidate(r) ==
    LET c  == RequestChecks(r)
        s0 == New(EmptyHeap)
        s1 == Validate(s0.heap, s0.ret, c[1][1], c[1][2])
        s2 == Validate(s1.heap, s1.ret, c[2][1], c[2][2])
        s3 == Validate(s2.heap, s2.ret, c[3][1], c[3][2])
        s4 == Validate(s3.heap, s3.ret, c[4][1], c[4][2])
    IN  [heap |-> s4.heap, recv |-> s0.ret, ret |-> s4.ret, pre |-> s3.heap[s3.ret]]

\* a request arrives and is validated
RequestValidateCall ==
    \E r \in Requests :
        \E s \in {RequestValidate(r)}, c \in {RequestChecks(r)} :
            /\ heap' = s.heap
            /\ recv' = s.recv
            /\ ret' = s.ret
            /\ call' = CallRecord("Validate", s.ret, c[4][1], c[4][2], s.pre, <<>>, TRUE)
            /\ validated' = {c[i][1] : i \in 1..4}
            /\ failed' = {c[i][1] : i \in {j \in 1..4 : AnyFails(c[j][2])}}
            /\ ncalls' = 4
            /\ req' = r
            /\ UNCHANGED lib

NextRequest ==
    \/ RequestValidateCall
    \/ IsValidCall

SpecRequest == Init /\ [][NextRequest]_vars

---------------------------------------------------------------------------
(* The check library: any check on any argument, evaluated *)

\* "hello"
sHello == <<104, 101, 108, 108, 111>>

\* numbers, lengths and strings of 'a' of each length
Nums == (0 - MaxNum)..MaxNum
Lens == 0..MaxLen
LibStrings == {[i \in 1..n |-> 97] : n \in Lens}

\* the elements of an array, slice, map or record: all strings or all ints
ElemSeqs ==
    UNION {[1..n -> {StrV(<<>>), StrV(sHello)}] \cup [1..n -> {IntV(0), IntV(1)}] :
           n \in 0..MaxElems}

\* the values of every kind handed to NotEmpty and Empty
LibValues ==
    {NilV}
    \cup {IntV(n) : n \in Nums} \cup {UintV(n) : n \in 0..MaxNum}
    \cup {FloatV(n) : n \in Nums}
    \cup {StrV(<<>>), StrV(<<32>>), StrV(sHello)}
    \cup {BoolV(b) : b \in BOOLEAN}
    \cup {TimeV(t) : t \in Times}
    \cup {StructV(e) : e \in ElemSeqs}
    \cup {ArrayV(e) : e \in ElemSeqs}
    \cup {SliceV(e) : e \in ElemSeqs} \cup {NilSliceV}
    \cup {MapV(e) : e \in ElemSeqs} \cup {NilMapV}
    \cup {FuncV(b) : b \in BOOLEAN} \cup {ChanV(b) : b \in BOOLEAN}

\* the operand pairs of Equal[T]: both of the type T
EqualPairs ==
    {<<BoolV(a), BoolV(b)>> : a, b \in BOOLEAN}
    \cup {<<StrV(a), StrV(b)>> : a, b \in {<<>>, sHello, sBob}}
    \cup {<<IntV(a), IntV(b)>> : a, b \in Nums}
    \cup {<<TimeV(a), TimeV(b)>> : a, b \in Times}

\* the closures the library's constructors return, by the type of their arguments
LengthChecks ==
    {StrLength(v, min, max) : v \in LibStrings, min \in Lens, max \in Lens}
NumberChecks ==
    {MinNumber(v, min) : v \in Nums, min \in Nums}
    \cup {MaxNumber(v, max) : v \in Nums, max \in Nums}
    \cup {BetweenNumber(v, min, max) : v \in Nums, min \in Nums, max \in Nums}
    \cup {PositiveNumber(v) : v \in Nums}
EqualChecks == {Equal(p[1], p[2]) : p \in EqualPairs}
DateChecks ==
    {DateEqual(v, r) : v \in Times, r \in Times}
    \cup {DateAfter(v, r) : v \in Times, r \in Times}
    \cup {DateBefore(v, r) : v \in Times, r \in Times}
EmptyChecks == {NotEmpty(v) : v \in LibValues} \cup {Empty(v) : v \in LibValues}

\* the caller holds the check c and has not evaluated it
HoldsCheck(c) ==
    LET s == New(EmptyHeap)
    IN  /\ heap = s.heap
        /\ recv = s.ret
        /\ ret = s.ret
        /\ call = CallRecord("New", s.ret, <<>>, <<>>, EmptyMap, <<>>, TRUE)
        /\ validated = {}
        /\ failed = {}
        /\ ncalls = 0
        /\ req = NoRequest
        /\ lib = [op |-> "check", check |-> c, err |-> NilErr]

InitChecks ==
    \/ \E c \in LengthChecks : HoldsCheck(c)
    \/ \E c \in NumberChecks : HoldsCheck(c)
    \/ \E c \in EqualChecks : HoldsCheck(c)
    \/ \E c \in DateChecks : HoldsCheck(c)
    \/ \E c \in EmptyChecks : HoldsCheck(c)

\* err := fn()
EvalCall ==
    /\ lib.op = "check"
    /\ lib' = [lib EXCEPT !.op = "result", !.err = Eval(lib.check)]
    /\ UNCHANGED <<heap, recv, ret, call, validated, failed, ncalls, req>>

NextChecks == EvalCall

SpecChecks == InitChecks /\ [][NextChecks]_vars

---------------------------------------------------------------------------
(* Properties of the aggregator under Spec *)

\* the report the caller holds
Report == heap[recv]

\* the elements of a sequence
Range(q) == {q[i] : i \in DOMAIN q}

RECURSIVE Failures(_)
\* the failure messages of the failing checks of fns, in the order given
Failures(fns) ==
    IF fns = <<>> THEN <<>>
    ELSE (IF Eval(fns[1]).nil THEN <<>> ELSE <<Eval(fns[1]).msg>>)
         \o Failures(Tail(fns))

\* C1: a field name is a key of the report if and only if some Validate call
\* for that field had a check that failed; a call whose checks all pass
\* never inserts the field.
C1_KeyIffSomeCheckFailed ==
    DOMAIN Report = failed

\* C2: when a Validate call stores a list under its field, the list is
\* exactly the failure messages of the failing checks, in the order given,
\* with no other element.
C2_StoredListIsTheFailures ==
    (call.op = "Validate" /\ heap[call.e] # call.pre)
        => heap[call.e][call.field] = Failures(call.fns)

\* C3: after Validate calls in which every supplied check passed, IsValid()
\* returns true.
C3_AllPassingIsValid ==
    (call.op = "IsValid" /\ failed = {}) => call.valid

\* the list a call Validate(field, fns...) leaves under field on a report
\* fresh from New()
OnNewReport(field, fns) ==
    LET s0 == New(EmptyHeap)
        s1 == Validate(s0.heap, s0.ret, field, fns)
    IN  s1.heap[s1.ret][field]

\* C4: a Validate call, with at least one failing check, for a field that
\* already has a list leaves under the field the list this call alone
\* produces (what it stores on a new report): nothing of the earlier list
\* is kept and the lists are not concatenated.
C4_SecondCallReplaces ==
    (call.op = "Validate" /\ call.field \in DOMAIN call.pre /\ AnyFails(call.fns))
        => heap[call.e][call.field] = OnNewReport(call.field, call.fns)

\* C4 witness: a second call whose failing check replaced a list holding a
\* different failure message, which is gone.
C4_Witness ==
    /\ call.op = "Validate"
    /\ call.field \in DOMAIN call.pre
    /\ AnyFails(call.fns)
    /\ \E x \in Range(call.pre[call.field]) :
          x # <<>> /\ x \notin Range(heap[call.e][call.field])

\* C8: Validate mutates the report in place and returns that same report:
\* the value returned is the receiver, so a call chained on it acts on the
\* one report the caller holds, as a separate call does, and no other
\* report comes to exist.
C8_ValidateReturnsReceiver ==
    /\ ret = recv
    /\ DOMAIN heap = {recv}
    /\ call.op = "Validate" => (ret = call.e /\ heap[ret] = heap[call.e])

\* C8 witness: two Validate calls, the second on what the first returned,
\* each of which stored its field in the caller's report.
C8_Witness ==
    /\ call.op = "Validate"
    /\ ncalls = 2
    /\ call.e = ret
    /\ Cardinality(DOMAIN Report) = 2
    /\ call.field \notin DOMAIN call.pre

\* C10: a report created by New is empty, and a field name never passed to
\* Validate is absent from the report.
C10_NeverValidatedAbsent ==
    /\ ncalls = 0 => Report = EmptyMap
    /\ DOMAIN Report \subseteq validated

\* C10 witness: after two Validate calls that stored their fields, a field
\* name never validated is absent.
C10_Witness ==
    /\ ncalls = 2
    /\ Cardinality(DOMAIN Report) = 2
    /\ \E f \in FieldNames : f \notin validated /\ f \notin DOMAIN Report

---------------------------------------------------------------------------
(* Properties of the example handler under SpecRequest *)

\* the invalid request of the README: name "My Name", a date of birth more
\* than 16 years back, count 0, isEnabled true
DocumentedInvalidRequest ==
    /\ req.Name = sMyName
    /\ req.DOB = 2000
    /\ req.DOB < AddDate(req.now, 0 - 16)
    /\ req.Count = 0
    /\ req.IsEnabled = TRUE

\* C9: validating the documented invalid request yields exactly the two
\* entries count -> ["value 0 should be greater than 0"] and
\* isEnabled -> ["value true does not evaluate to false"], and none for
\* name or dob.
C9_DocumentedInvalidReport ==
    DocumentedInvalidRequest
        => /\ DOMAIN Report = {fCount, fIsEnabled}
           /\ Report[fCount] = <<validatePositive(0)>>
           /\ Report[fIsEnabled] = <<validateBool(BoolV(TRUE), BoolV(FALSE))>>

---------------------------------------------------------------------------
(* Properties of rendering under SpecString *)

\* a read of the report: String or Error
Rendered == call.op \in {"String", "Error"}

RECURSIVE CommaJoined(_)
\* the strings of q separated by ", "
CommaJoined(q) ==
    IF q = <<>> THEN <<>>
    ELSE IF Len(q) = 1 THEN q[1]
    ELSE CommaJoined(SubSeq(q, 1, Len(q) - 1)) \o <<44, 32>> \o q[Len(q)]

\* the segment "[field: msg1, msg2, ...]"
SegmentOf(k, vv) == <<91>> \o k \o <<58, 32>> \o CommaJoined(vv) \o <<93>>

\* the segments of report m, its fields taken in order o
SegmentsOf(m, o) == [i \in DOMAIN o |-> SegmentOf(o[i], m[o[i]])]

\* the field names of m in ascending order
ByFieldName(m) ==
    CHOOSE o \in RangeOrders(m) : \A i, j \in DOMAIN o : i < j => StrLess(o[i], o[j])

\* field name a is a proper prefix of b, and b goes on with a byte that
\* does not sort after ':'
PrefixThenLowByte(a, b) ==
    Len(a) < Len(b) /\ SubSeq(b, 1, Len(a)) = a /\ b[Len(a) + 1] <= 58

\* "[count: value 0 should be greater than 0], [isEnabled: value true does
\* not evaluate to false]"
ExampleRendering ==
    <<91, 99, 111, 117, 110, 116, 58, 32, 118, 97, 108, 117, 101, 32, 48,
      32, 115, 104, 111, 117, 108, 100, 32, 98, 101, 32, 103, 114, 101, 97,
      116, 101, 114, 32, 116, 104, 97, 110, 32, 48, 93, 44, 32, 91, 105,
      115, 69, 110, 97, 98, 108, 101, 100, 58, 32, 118, 97, 108, 117, 101,
      32, 116, 114, 117, 101, 32, 100, 111, 101, 115, 32, 110, 111, 116,
      32, 101, 118, 97, 108, 117, 97, 116, 101, 32, 116, 111, 32, 102, 97,
      108, 115, 101, 93>>

\* C5 as stated: String() of an invalid report is the segments
\* "[field: msg1, msg2, ...]" joined with ", " in ascending field-name
\* order, for every set of field names.
C5_SegmentsByFieldName ==
    (Rendered /\ DOMAIN call.pre # {})
        => call.str = CommaJoined(SegmentsOf(call.pre, ByFieldName(call.pre)))

\* C5 amended: String() of an invalid report is one segment
\* "[field: msg1, msg2, ...]" per field (messages in stored order), joined
\* with ", ", in ascending byte order of the segments themselves; two
\* fields come in field-name order unless the smaller name is a proper
\* prefix of the other and the other goes on with a byte sorting at or
\* before ':'.  The report {count: [..], isEnabled: [..]} of the example
\* renders as the example says.
C5_SegmentsBySegmentText ==
    (Rendered /\ DOMAIN call.pre # {})
        => /\ \E o \in RangeOrders(call.pre) :
                LET segs == SegmentsOf(call.pre, o)
                IN  /\ call.str = CommaJoined(segs)
                    /\ \A i, j \in DOMAIN o : i < j => ~StrLess(segs[j], segs[i])
                    /\ \A i, j \in DOMAIN o :
                          (StrLess(o[i], o[j]) /\ ~PrefixThenLowByte(o[i], o[j]))
                              => i < j
           /\ (/\ DOMAIN call.pre = {fCount, fIsEnabled}
               /\ call.pre[fCount] = <<validatePositive(0)>>
               /\ call.pre[fIsEnabled] = <<validateBool(BoolV(TRUE), BoolV(FALSE))>>)
                  => call.str = ExampleRendering

\* C5 witness: String() rendered a report holding count, count2 and
\* isEnabled, one of them with two messages.
C5_Witness ==
    /\ call.op = "String"
    /\ DOMAIN call.pre = {fCount, fCount2, fIsEnabled}
    /\ Len(call.pre[fCount]) = 2
    /\ call.pre[fCount][2] # <<>>

\* C6: String() and Error() return "no validation errors" if and only if
\* the report holds zero fields.
C6_SentinelIffEmpty ==
    Rendered => ((call.str = noValidationErrors) <=> (DOMAIN call.pre = {}))

\* C6 witness: Error() rendered a report with a field, and String() an
\* empty one is the other case.
C6_Witness ==
    call.op = "Error" /\ DOMAIN call.pre # {} /\ call.str # noValidationErrors

\* C7: every String() or Error() of the same unmodified report gives the
\* output this one gave, in whatever order the map's fields are visited,
\* and String(), Error() and IsValid() leave the report as it was.
C7_RenderingIdempotentReadOnly ==
    /\ Rendered =>
          \A o \in RangeOrders(call.pre) :
              String(call.pre, o) = call.str /\ Error(call.pre, o) = call.str
    /\ (Rendered \/ call.op = "IsValid") => Report = call.pre

\* C7 witness: String() rendered a report of three fields, which six
\* visiting orders can produce.
C7_Witness ==
    call.op = "String" /\ Cardinality(RangeOrders(call.pre)) = 6 /\ Report = call.pre

---------------------------------------------------------------------------
(* Properties of the aggregator under SpecAny *)

\* C11: no operation of the aggregator aborts.  Whatever the field name (the
\* empty string included) and whatever the checks (none included), every
\* Validate, IsValid, String and Error call returns: Validate the report it
\* was called on, IsValid a boolean, String and Error a text.
C11_NoOperationAborts ==
    /\ Running
    /\ call.op = "Validate" => ret = call.e /\ ret \in DOMAIN heap
    /\ call.op = "IsValid" => call.valid \in BOOLEAN
    /\ call.op \in {"String", "Error"} => Len(call.str) > 0

\* a report validated twice, the empty field name holding what a call with
\* two checks on func and chan values, one failing, stored, rendered by Error
C11_Witness ==
    /\ call.op = "Error"
    /\ ncalls > 1
    /\ <<>> \in DOMAIN heap[recv]
    /\ heap[recv][<<>>] = <<<<>>, <<>>, validateEmpty>>

---------------------------------------------------------------------------
(* Properties of the constructors under SpecConstruct *)

\* C12: NewSingleError(field, messages) returns a failure value that is a
\* report whose entry for field is exactly the given list, whether the list
\* is empty, has one message or several: the key is present even with no
\* message under it.
C12_SingleErrorWrapsList ==
    lib.op = "NewSingleError" =>
        /\ ~lib.result.nil
        /\ lib.field \in DOMAIN lib.result.report
        /\ lib.result.report[lib.field] = lib.msgs

\* NewSingleError("test", []string{}) returned a report holding "test" with no message
C12_Witness ==
    /\ lib.op = "NewSingleError"
    /\ lib.field = fTest
    /\ lib.msgs = <<>>
    /\ ~lib.result.nil
    /\ lib.result.report = [k \in {fTest} |-> <<>>]

\* C13: NewFromError(field, err) returns no report at all when err is nil,
\* which is not an empty report; otherwise it returns a report with exactly
\* one field, whose list is the one full message of err, the wrapping text
\* included for a wrapped error.
C13_FromErrorNilOrOneMessage ==
    lib.op = "NewFromError" =>
        /\ lib.err.nil => lib.result.nil /\ lib.result # ReportOf(EmptyMap)
        /\ ~lib.err.nil =>
               /\ ~lib.result.nil
               /\ DOMAIN lib.result.report = {lib.field}
               /\ lib.result.report[lib.field] = <<lib.err.msg>>

\* NewFromError("test", fmt.Errorf("i wrap %w", errors.New("I failed")))
\* returned {"test": ["i wrap I failed"]}
C13_Witness ==
    /\ lib.op = "NewFromError"
    /\ lib.field = fTest
    /\ lib.err = Wrap(sIWrap, ErrorsNew(sIFailedCap))
    /\ lib.result.report[fTest] =
           << <<105, 32, 119, 114, 97, 112, 32, 73, 32, 102, 97, 105, 108, 101, 100>> >>

---------------------------------------------------------------------------
(* Properties of the check library under SpecChecks *)

\* the check evaluated and what it returned
Evaluated(fn) == lib.op = "result" /\ lib.check.fn = fn
Passed == lib.err.nil /\ ~lib.err.panic
Failed == ~lib.err.nil /\ ~lib.err.panic

\* C14: bounds are inclusive in every bounded check.  StrLength passes iff
\* min <= len(v) <= max, MinNumber iff v >= min, MaxNumber iff v <= max,
\* BetweenNumber iff min <= v <= max; a value on a bound passes, a value
\* outside the bounds fails.
C14_BoundsInclusive ==
    LET c == lib.check
    IN  /\ Evaluated("StrLength") =>
               /\ Passed <=> (c.min <= Len(c.val) /\ Len(c.val) <= c.max)
               /\ Failed <=> (Len(c.val) < c.min \/ Len(c.val) > c.max)
        /\ Evaluated("MinNumber") =>
               /\ Passed <=> (c.val = c.min \/ c.val > c.min)
               /\ Failed <=> c.val < c.min
        /\ Evaluated("MaxNumber") =>
               /\ Passed <=> (c.val = c.max \/ c.val < c.max)
               /\ Failed <=> c.val > c.max
        /\ Evaluated("BetweenNumber") =>
               /\ Passed <=> (c.min <= c.val /\ c.val <= c.max)
               /\ Failed <=> (c.val < c.min \/ c.val > c.max)

\* MaxNumber(1, 1) passed: a value on the bound
C14_Witness ==
    /\ Evaluated("MaxNumber")
    /\ lib.check.val = 1
    /\ lib.check.max = 1
    /\ Passed

C16_EmptyComplementsNotEmpty ==
    LET v == lib.check.v
    IN  /\ Evaluated("Empty") =>
               /\ Passed <=> ~Eval(NotEmpty(v)).nil
               /\ Failed <=> Eval(NotEmpty(v)).nil
               /\ Failed =>
                      lib.err.msg = <<118, 97, 108, 117, 101, 32, 109, 117, 115,
                                      116, 32, 98, 101, 32, 101, 109, 112, 116, 121>>
        /\ Evaluated("NotEmpty") =>
               /\ Passed <=> ~Eval(Empty(v)).nil
               /\ Failed <=> Eval(Empty(v)).nil
               /\ Failed =>
                      lib.err.msg = <<118, 97, 108, 117, 101, 32, 99, 97, 110, 110,
                                      111, 116, 32, 98, 101, 32, 101, 109, 112, 116,
                                      121>>

\* Empty("hello") failed with "value must be empty"
C16_Witness ==
    /\ Evaluated("Empty")
    /\ lib.check.v = StrV(sHello)
    /\ Failed
    /\ lib.err.msg = validateNotEmpty

\* C17 as stated: for arrays, slices and maps NotEmpty reports empty iff the
\* length is 0; every container of length >= 1 passes whatever its elements.
C17_ContainerEmptyIffLengthZero ==
    LET v == lib.check.v
    IN  Evaluated("NotEmpty") /\ v.kind \in {"Array", "Slice", "Map"} =>
            /\ Len(v.elems) = 0 => Failed
            /\ Len(v.elems) >= 1 => Passed

\* C17 amended: a slice or a map is empty iff its length is 0, nil or not,
\* and passes with any elements otherwise; an array is empty iff every
\* element is the zero value of its type, whatever its length.
C17_SliceMapByLengthArrayByElements ==
    LET v == lib.check.v
    IN  Evaluated("NotEmpty") =>
            /\ v.kind \in {"Slice", "Map"} =>
                   /\ Len(v.elems) = 0 => Failed
                   /\ Len(v.elems) >= 1 => Passed
            /\ v.kind = "Array" =>
                   /\ (\A i \in DOMAIN v.elems : v.elems[i] \in {StrV(<<>>), IntV(0)})
                          => Failed
                   /\ (\E i \in DOMAIN v.elems : v.elems[i] \notin {StrV(<<>>), IntV(0)})
                          => Passed

\* NotEmpty([2]string{"", ""}) failed: an array of length 2 reported empty
C17_Witness ==
    /\ Evaluated("NotEmpty")
    /\ lib.check.v = ArrayV(<<StrV(<<>>), StrV(<<>>)>>)
    /\ Failed
    /\ lib.err.msg = validateEmpty

\* C18 as stated: NotEmpty on a func or chan value raises the fatal
\* unsupported-type signal; on every other kind it returns a result.
C18_FuncChanFatal ==
    Evaluated("NotEmpty") =>
        (lib.err.panic <=> lib.check.v.kind \in {"Func", "Chan"})

\* C18 amended: evaluating a check never aborts, NotEmpty on a func or chan
\* value included: a nil func or chan is reported empty and any other passes.
C18_NoCheckAborts ==
    /\ lib.op = "result" => ~lib.err.panic
    /\ Evaluated("NotEmpty") /\ lib.check.v.kind \in {"Func", "Chan"} =>
           /\ lib.check.v.isnil => Failed
           /\ ~lib.check.v.isnil => Passed

\* NotEmpty of a func value that is not nil returned nil
C18_Witness ==
    /\ Evaluated("NotEmpty")
    /\ lib.check.v = FuncV(FALSE)
    /\ Passed

\* C19: Equal(val, exp) passes iff val == exp, so Equal(x, x) passes for a
\* bool, a string, an integer and a timestamp; for val != exp it fails with
\* "value <val> does not evaluate to <exp>", the operands in that order.
C19_EqualIffSame ==
    LET c == lib.check
    IN  Evaluated("Equal") =>
            /\ c.val = c.exp => Passed
            /\ c.val # c.exp =>
                   /\ Failed
                   /\ lib.err.msg =
                          <<118, 97, 108, 117, 101, 32>> \o FormatV(c.val)
                          \o <<32, 100, 111, 101, 115, 32, 110, 111, 116, 32, 101,
                               118, 97, 108, 117, 97, 116, 101, 32, 116, 111, 32>>
                          \o FormatV(c.exp)

\* Equal(1, 2) failed with "value 1 does not evaluate to 2"
C19_Witness ==
    /\ Evaluated("Equal")
    /\ lib.check.val = IntV(1)
    /\ lib.check.exp = IntV(2)
    /\ lib.err.msg =
           <<118, 97, 108, 117, 101, 32, 49, 32, 100, 111, 101, 115, 32, 110,
             111, 116, 32, 101, 118, 97, 108, 117, 97, 116, 101, 32, 116, 111,
             32, 50>>

\* the date checks that pass on the pair (v, r)
DatePassing(v, r) ==
    {c \in {DateBefore(v, r), DateEqual(v, r), DateAfter(v, r)} : Eval(c).nil}

\* C20: the date ordering checks are strict.  DateBefore(v, r) passes iff
\* v < r, DateAfter(v, r) iff v > r; for v == r both fail and DateEqual
\* passes; of the three, exactly one passes on any pair.
C20_DateOrderStrict ==
    LET c == lib.check
    IN  /\ Evaluated("DateBefore") => (Passed <=> c.val < c.exp)
        /\ Evaluated("DateAfter") => (Passed <=> c.val > c.exp)
        /\ Evaluated("DateEqual") => (Passed <=> c.val = c.exp)
        /\ lib.op = "result" /\ c.fn \in {"DateBefore", "DateEqual", "DateAfter"} =>
               /\ ~lib.err.panic
               /\ Cardinality(DatePassing(c.val, c.exp)) = 1
               /\ c.val = c.exp => DatePassing(c.val, c.exp) = {DateEqual(c.val, c.exp)}

\* DateAfter(v, v) failed for the year 2015
C20_Witness ==
    /\ Evaluated("DateAfter")
    /\ lib.check.val = 2015
    /\ lib.check.exp = 2015
    /\ Failed

---------------------------------------------------------------------------
(* Properties of one Validate call under SpecLoop *)

\* the indices 1..n in ascending order
UpTo(n) == [k \in 1..n |-> k]

\* C21: a Validate call evaluates every check it is given exactly once, in
\* the order given, whether or not an earlier check failed, and returns only
\* when all of them have been evaluated: the evaluations made so far are the
\* checks before the loop's position, and at the return they are all the
\* checks, what is stored being what they produced.
C21_EveryCheckOnceInOrder ==
    /\ lib.evals = UpTo(Len(lib.evals))
    /\ lib.pc = "make" => lib.evals = <<>>
    /\ lib.pc = "range" => Len(lib.evals) = lib.i - 1 /\ lib.i <= Len(lib.fns) + 1
    /\ call.op = "Validate" <=> lib.pc = "returned"
    /\ lib.pc = "returned" =>
           /\ lib.evals = UpTo(Len(lib.fns))
           /\ lib.out = Collect(MakeOut(lib.fns), lib.fns)
           /\ SubSeq(lib.out, Len(lib.fns) + 1, Len(lib.out)) = Failures(lib.fns)
           /\ heap = Validate(New(EmptyHeap).heap, recv, lib.field, lib.fns).heap

\* a call with two checks returned: the first failed, the second was
\* evaluated after it and failed too, and both messages are in the list
C21_Witness ==
    /\ lib.pc = "returned"
    /\ lib.fns = <<PositiveNumber(0), Equal(BoolV(TRUE), BoolV(FALSE))>>
    /\ lib.evals = <<1, 2>>
    /\ heap[recv][lib.field] =
           <<<<>>, <<>>, validatePositive(0), validateBool(BoolV(TRUE), BoolV(FALSE))>>

---------------------------------------------------------------------------
(* Growth and frame of the report under Spec *)

\* C22: the report only grows.  No Validate call removes a field, so a
\* report that is not valid stays not valid; and a call whose checks all
\* pass, for a field that failed before, leaves that field's earlier list in
\* place unchanged.
C22_ReportOnlyGrows ==
    call.op = "Validate" =>
        /\ DOMAIN call.pre \subseteq DOMAIN heap[call.e]
        /\ ~IsValid(call.pre) => ~IsValid(heap[call.e])
        /\ (call.field \in failed /\ call.field \in DOMAIN call.pre
                /\ ~AnyFails(call.fns))
               => heap[call.e][call.field] = call.pre[call.field]

\* C23: Validate(field, ...) changes at most the entry for field: every
\* other field name is in the report after the call iff it was before, with
\* the same list; and a call with no checks leaves the whole report as it was.
C23_OnlyOwnFieldChanges ==
    call.op = "Validate" =>
        /\ \A g \in (DOMAIN call.pre \cup DOMAIN heap[call.e]) \ {call.field} :
               /\ g \in DOMAIN call.pre
               /\ g \in DOMAIN heap[call.e]
               /\ heap[call.e][g] = call.pre[g]
        /\ call.fns = <<>> => heap[call.e] = call.pre

\* a call that stored a list under its field in a report already holding
\* another field, whose list is as it was
C23_Witness ==
    /\ call.op = "Validate"
    /\ call.field \notin DOMAIN call.pre
    /\ call.field \in DOMAIN heap[call.e]
    /\ \E g \in DOMAIN call.pre :
           /\ g # call.field
           /\ call.pre[g] # <<>>
           /\ heap[call.e][g] = call.pre[g]

=============================================================================
